---- MODULE Spec2Model ----
(***************************************************************************)
(* A model of citnames_rs (Bear): the recognizer chain, the expansion of   *)
(* compiler calls into compilation database entries, the duplicate filter  *)
(* and the concurrent pipeline of Application::run.                        *)
(*                                                                         *)
(* Strings and paths are sequences of one-character strings, so that the   *)
(* code's prefix and extension tests are computed, not assumed.  An        *)
(* Option<T> is a sequence of length 0 (None) or 1 (Some).                 *)
(***************************************************************************)
EXTENDS Integers, Sequences, FiniteSets, TLC

\* ------------------------------------------------------------------ bounds
\* Longest sequence of entries fed to one filter instance (SpecFilter).
MaxFeed == 3
\* Longest compilers_to_recognize list, longest compilers_to_exclude list and
\* longest list of tools composed by hand (SpecTools).
MaxConfigured == 2
MaxExcluded == 1
MaxTools == 3
\* Pipeline: the number of worker threads (num_cpus::get()), the longest
\* input stream and the longest prior output file, in records, and the
\* capacities of the two bounded channels, scaled down from bounded(128) and
\* bounded(32) so that the channels fill up.
NumWorkers == 2
MaxInput == 2
MaxPrior == 2
ExecutionCapacity == 1
EntryCapacity == 1
MaxLiveInput == 3
MaxLivePrior == 1
\* Configured::recognize: the longest argument list after argument 0.
MaxArguments == 3
\* try_from: the largest number of sources of a Compile.
MaxSources == 3
MaxText == 4

\* ------------------------------------------------------------- text values
None == << >>
Some(v) == << v >>

P_w == << "/", "w" >>
P_v == << "/", "v" >>
P_w_a_c == << "/", "w", "/", "a", ".", "c" >>
P_w_b_c == << "/", "w", "/", "b", ".", "c" >>
P_w_a_o == << "/", "w", "/", "a", ".", "o" >>
S_cc == << "c", "c" >>
S_dash_c == << "-", "c" >>
S_dash_v == << "-", "v" >>
S_a_c == << "a", ".", "c" >>
S_b_c == << "b", ".", "c" >>

P_cc == << "/", "c", "c" >>
P_gcc == << "/", "g", "c", "c" >>
P_ls == << "/", "l", "s" >>
P_mk == << "/", "m", "k" >>
\* A path holding a byte that is not valid UTF-8 (written "<FF>").
P_raw == << "/", "<FF>" >>
S_dash_W == << "-", "W" >>
S_parent_b_c == << ".", ".", "/", "b", ".", "c" >>
S_dash_o == << "-", "o" >>
S_a_o == << "a", ".", "o" >>
\* The path of P_cc, not normalized.
P_dot_cc == << "/", ".", "/", "c", "c" >>
S_dot_a_c == << ".", "/", "a", ".", "c" >>
P_w_parent_a_c == << "/", "w", "/", ".", ".", "/", "a", ".", "c" >>
\* A relative file name holding a byte that is not valid UTF-8.
S_raw_c == << "<FF>", ".", "c" >>

\* ------------------------------------------------- source-file classifier
EXTENSIONS ==
    {
      << "h" >>, << "h", "h" >>, << "H" >>, << "h", "p" >>,
      << "h", "x", "x" >>, << "h", "p", "p" >>, << "H", "P", "P" >>, << "h", "+", "+" >>,
      << "t", "c", "c" >>, << "c" >>, << "C" >>, << "c", "c" >>,
      << "C", "C" >>, << "c", "+", "+" >>, << "C", "+", "+" >>, << "c", "x", "x" >>,
      << "c", "p", "p" >>, << "c", "p" >>, << "c", "u" >>, << "m" >>,
      << "m", "i" >>, << "m", "m" >>, << "M" >>, << "m", "i", "i" >>,
      << "i" >>, << "i", "i" >>, << "s" >>, << "S" >>,
      << "s", "x" >>, << "a", "s", "m" >>, << "f" >>, << "f", "o", "r" >>,
      << "f", "t", "n" >>, << "F" >>, << "F", "O", "R" >>, << "f", "p", "p" >>,
      << "F", "P", "P" >>, << "F", "T", "N" >>, << "f", "9", "0" >>, << "f", "9", "5" >>,
      << "f", "0", "3" >>, << "f", "0", "8" >>, << "F", "9", "0" >>, << "F", "9", "5" >>,
      << "F", "0", "3" >>, << "F", "0", "8" >>, << "g", "o" >>, << "b", "r", "i", "g" >>,
      << "d" >>, << "d", "i" >>, << "d", "d" >>, << "a", "d", "s" >>,
      << "a", "b", "d" >>
    }

starts_with(s, c) == Len(s) > 0 /\ s[1] = c

\* The index of the last occurrence of c in s, 0 when there is none.
RECURSIVE rfind(_, _, _)
rfind(s, c, i) ==
    IF i = 0 THEN 0
    ELSE IF s[i] = c THEN i
    ELSE rfind(s, c, i - 1)

\* str::rsplit_once: None, or Some(<<before, after>>) around the last c.
rsplit_once(s, c) ==
    LET i == rfind(s, c, Len(s))
    IN  IF i = 0 THEN None
        ELSE Some(<< SubSeq(s, 1, i - 1), SubSeq(s, i + 1, Len(s)) >>)

\* looks_like_a_source_file without the test for windows flags.
looks_like_a_source_file_without_windows_flags(argument) ==
    IF starts_with(argument, "-") THEN FALSE
    ELSE LET split == rsplit_once(argument, ".")
         IN  IF split # None THEN split[1][2] \in EXTENSIONS
             ELSE FALSE

looks_like_a_source_file(argument) ==
    IF starts_with(argument, "-") THEN FALSE
    ELSE IF starts_with(argument, "/") THEN FALSE
    ELSE LET split == rsplit_once(argument, ".")
         IN  IF split # None THEN split[1][2] \in EXTENSIONS
             ELSE FALSE

\* ------------------------------------------------------ recognition values
NotRecognized == << "NotRecognized" >>
Recognized(result) == << "Recognized", result >>
Ok(v) == << "Ok", v >>
Err(e) == << "Err", e >>
Compiler(call) == << "Compiler", call >>
UnixCommand == << "UnixCommand" >>
BuildCommand == << "BuildCommand" >>
Query == << "Query" >>
Preprocess == << "Preprocess" >>
Compile(working_dir, compiler, flags, sources, output) ==
    << "Compile",
       [ working_dir |-> working_dir, compiler |-> compiler, flags |-> flags,
         sources |-> sources, output |-> output ] >>

IsRecognized(r) == r[1] = "Recognized"

\* An Execution; its environment map is read by no code of the model.
Execution(executable, arguments, working_dir) ==
    [ executable |-> executable, arguments |-> arguments, working_dir |-> working_dir ]

Contains(seq, v) == \E i \in 1..Len(seq) : seq[i] = v

\* --------------------------------------------------------- Configured tool
\* Mutant: an argument is classified before flags_to_remove is consulted.
RECURSIVE configured_scan_classify_first(_, _, _, _, _)
configured_scan_classify_first(config, arguments, i, flags, sources) ==
    IF i > Len(arguments) THEN [ flags |-> flags, sources |-> sources ]
    ELSE IF looks_like_a_source_file(arguments[i])
         THEN configured_scan_classify_first(config, arguments, i + 1, flags,
                  Append(sources, arguments[i]))
    ELSE IF Contains(config.flags_to_remove, arguments[i])
         THEN configured_scan_classify_first(config, arguments, i + 1, flags, sources)
    ELSE configured_scan_classify_first(config, arguments, i + 1,
             Append(flags, arguments[i]), sources)

\* The loop over x.arguments.iter().skip(1), from argument i on: the flags
\* and the sources collected, in order.
RECURSIVE configured_scan(_, _, _, _, _)
configured_scan(config, arguments, i, flags, sources) ==
    IF i > Len(arguments) THEN [ flags |-> flags, sources |-> sources ]
    ELSE IF Contains(config.flags_to_remove, arguments[i])
         THEN configured_scan(config, arguments, i + 1, flags, sources)
    ELSE IF looks_like_a_source_file(arguments[i])
         THEN configured_scan(config, arguments, i + 1, flags, Append(sources, arguments[i]))
    ELSE configured_scan(config, arguments, i + 1, Append(flags, arguments[i]), sources)

\* Mutant: a Compile is returned also when no source was found.
configured_recognize_without_sources(config, x) ==
    IF x.executable = config.executable
    THEN LET scan == configured_scan(config, x.arguments, 2, << >>, << >>)
             flags == scan.flags \o config.flags_to_add
         IN  Recognized(Ok(Compiler(
                 Compile(x.working_dir, x.executable, flags, scan.sources, None))))
    ELSE NotRecognized

\* Mutant: flags_to_add is put before the flags of the execution.
configured_recognize_add_first(config, x) ==
    IF x.executable = config.executable
    THEN LET scan == configured_scan(config, x.arguments, 2, << >>, << >>)
             flags == config.flags_to_add \o scan.flags
         IN  IF scan.sources = << >>
             THEN Recognized(Err("source file is not found"))
             ELSE Recognized(Ok(Compiler(
                      Compile(x.working_dir, x.executable, flags, scan.sources, None))))
    ELSE NotRecognized

configured_recognize(config, x) ==
    IF x.executable = config.executable
    THEN LET scan == configured_scan(config, x.arguments, 2, << >>, << >>)
             flags == scan.flags \o config.flags_to_add
         IN  IF scan.sources = << >>
             THEN Recognized(Err("source file is not found"))
             ELSE Recognized(Ok(Compiler(
                      Compile(x.working_dir, x.executable, flags, scan.sources, None))))
    ELSE NotRecognized

\* ------------------------------------------------ generic matcher (Wrapper)
\* tools/wrapper.rs is not among the sources: the generic matcher follows the
\* specification (the extraction of Configured with no flag policy, triggered
\* by a table of well-known executables; a build tool is classified as a
\* non-compiler command; anything else is NotRecognized).
WrapperCompilers == { P_gcc }
WrapperBuildCommands == { P_mk }

wrapper_recognize(x) ==
    IF x.executable \in WrapperCompilers
    THEN configured_recognize(
             [ executable |-> x.executable, flags_to_add |-> << >>, flags_to_remove |-> << >> ], x)
    ELSE IF x.executable \in WrapperBuildCommands
    THEN Recognized(Ok(BuildCommand))
    ELSE NotRecognized

\* ------------------------------------------------------------------ tools
ConfiguredTool(config) == [ kind |-> "Configured", config |-> config ]
WrapperTool == [ kind |-> "Wrapper" ]
AnyTool(tools) == [ kind |-> "Any", tools |-> tools ]
ExcludeOrTool(excludes, or) == [ kind |-> "ExcludeOr", excludes |-> excludes, or |-> or ]
MockTool(behaviour) == [ kind |-> "Mock", behaviour |-> behaviour ]

mock_recognize(behaviour) ==
    CASE behaviour = "Recognize" -> Recognized(Ok(Compiler(Query)))
      [] behaviour = "RecognizeFailed" -> Recognized(Err("problem"))
      [] behaviour = "NotRecognize" -> NotRecognized

RECURSIVE recognize(_, _)

\* Mutant: a Recognized(Err) falls through to the later tools.
RECURSIVE any_recognize_skipping_err(_, _, _)
any_recognize_skipping_err(tools, x, i) ==
    IF i > Len(tools) THEN NotRecognized
    ELSE LET r == recognize(tools[i], x)
         IN  IF IsRecognized(r) /\ r[2][1] = "Ok" THEN r
             ELSE any_recognize_skipping_err(tools, x, i + 1)

\* Any::recognize, from tool i of the list on.
RECURSIVE any_recognize(_, _, _)
any_recognize(tools, x, i) ==
    IF i > Len(tools) THEN NotRecognized
    ELSE LET r == recognize(tools[i], x)
         IN  IF IsRecognized(r) THEN r
             ELSE any_recognize(tools, x, i + 1)

\* Mutant: the delegate is asked first and the deny list only afterwards.
exclude_or_recognize_delegate_first(excludes, or, x) ==
    LET r == recognize(or, x)
    IN  IF IsRecognized(r) THEN r
        ELSE NotRecognized

exclude_or_recognize(excludes, or, x) ==
    IF \E i \in 1..Len(excludes) : x.executable = excludes[i]
    THEN NotRecognized
    ELSE recognize(or, x)

recognize(tool, x) ==
    CASE tool.kind = "Configured" -> configured_recognize(tool.config, x)
      [] tool.kind = "Wrapper" -> wrapper_recognize(x)
      [] tool.kind = "Any" -> any_recognize(tool.tools, x, 1)
      [] tool.kind = "ExcludeOr" -> exclude_or_recognize(tool.excludes, tool.or, x)
      [] tool.kind = "Mock" -> mock_recognize(tool.behaviour)

\* The leaf tools whose recognize is called for x, in call order: the same
\* control flow as recognize, recording the calls instead of the result.
RECURSIVE consulted(_, _)
RECURSIVE any_consulted(_, _, _)
any_consulted(tools, x, i) ==
    IF i > Len(tools) THEN << >>
    ELSE IF IsRecognized(recognize(tools[i], x))
         THEN consulted(tools[i], x)
    ELSE consulted(tools[i], x) \o any_consulted(tools, x, i + 1)

consulted(tool, x) ==
    CASE tool.kind = "Any" -> any_consulted(tool.tools, x, 1)
      [] tool.kind = "ExcludeOr" ->
            IF \E i \in 1..Len(tool.excludes) : x.executable = tool.excludes[i]
            THEN << >>
            ELSE consulted(tool.or, x)
      [] OTHER -> << tool >>

\* Configured::from: one Configured per entry, in order, inside an Any.
configured_from(configs) ==
    AnyTool([ i \in 1..Len(configs) |-> ConfiguredTool(configs[i]) ])

\* Mutant: the configured tools are pushed after the generic matcher.
tool_from_generic_first(value) ==
    LET generic == << WrapperTool >>
        tools == IF value.compilers_to_recognize # << >>
                 THEN generic \o << configured_from(value.compilers_to_recognize) >>
                 ELSE generic
    IN  IF value.compilers_to_exclude # << >>
        THEN ExcludeOrTool(value.compilers_to_exclude, AnyTool(tools))
        ELSE AnyTool(tools)

\* impl From<Compilation> for Box<dyn Tool>
tool_from(value) ==
    LET generic == << WrapperTool >>
        tools == IF value.compilers_to_recognize # << >>
                 THEN << configured_from(value.compilers_to_recognize) >> \o generic
                 ELSE generic
    IN  IF value.compilers_to_exclude # << >>
        THEN ExcludeOrTool(value.compilers_to_exclude, AnyTool(tools))
        ELSE AnyTool(tools)

\* -------------------------------------------------------- entry expansion
is_absolute(path) == starts_with(path, "/")

\* Path::components, "." included: the non-empty texts between separators.
RECURSIVE components_from(_, _, _, _)
components_from(path, i, current, acc) ==
    IF i > Len(path)
    THEN IF current = << >> THEN acc ELSE Append(acc, current)
    ELSE IF path[i] = "/"
         THEN components_from(path, i + 1, << >>,
                  IF current = << >> THEN acc ELSE Append(acc, current))
    ELSE components_from(path, i + 1, Append(current, path[i]), acc)

components(path) == components_from(path, 1, << >>, << >>)

\* The token list after component i on: "." is dropped, ".." removes the
\* last token (never the root), any other component is pushed.
RECURSIVE resolve_dots(_, _, _)
resolve_dots(comps, i, tokens) ==
    IF i > Len(comps) THEN tokens
    ELSE IF comps[i] = << "." >>
         THEN resolve_dots(comps, i + 1, tokens)
    ELSE IF comps[i] = << ".", "." >>
         THEN resolve_dots(comps, i + 1,
                  IF tokens = << >> THEN tokens ELSE SubSeq(tokens, 1, Len(tokens) - 1))
    ELSE resolve_dots(comps, i + 1, Append(tokens, comps[i]))

RECURSIVE from_tokens(_, _)
from_tokens(tokens, i) ==
    IF i > Len(tokens) THEN << >>
    ELSE << "/" >> \o tokens[i] \o from_tokens(tokens, i + 1)

\* Mutant: the root is put before an absolute path as well.
absolutize_always_from_root(path, root) ==
    LET base == components(root)
        tokens == resolve_dots(components(path), 1, base)
    IN  IF tokens = << >> THEN << "/" >> ELSE from_tokens(tokens, 1)

\* Absolutize::absolutize / absolutize_from, for an absolute root.
absolutize(path, root) ==
    LET base == IF is_absolute(path) THEN << >> ELSE components(root)
        tokens == resolve_dots(components(path), 1, base)
    IN  IF tokens = << >> THEN << "/" >> ELSE from_tokens(tokens, 1)

into_abspath(path, root) == Ok(absolutize(path, root))

into_abspath_opt(path, root) ==
    IF path = None THEN Ok(None)
    ELSE LET v == into_abspath(path[1], root)
         IN  IF v[1] = "Ok" THEN Ok(Some(v[2])) ELSE v

\* OsString::into_string fails on a byte sequence that is not UTF-8.
into_string(path) ==
    IF Contains(path, "<FF>") THEN Err("OsString") ELSE Ok(path)

\* Mutant: the arguments end with the resolved path of the source.
entry_of_source_resolved_arguments(c, source) ==
    LET compiler == into_string(c.compiler)
        output == IF c.output = None THEN Ok(<< >>)
                  ELSE LET o == into_string(c.output[1])
                       IN  IF o[1] = "Ok" THEN Ok(<< << "-", "o" >>, o[2] >>) ELSE o
        text == into_string(source)
        file == into_abspath(source, c.working_dir)
        out == into_abspath_opt(c.output, c.working_dir)
    IN  IF compiler[1] = "Err" THEN compiler
        ELSE IF output[1] = "Err" THEN output
        ELSE IF text[1] = "Err" THEN text
        ELSE IF file[1] = "Err" THEN file
        ELSE IF out[1] = "Err" THEN out
        ELSE Ok([ file |-> file[2],
                  directory |-> c.working_dir,
                  output |-> out[2],
                  arguments |-> << compiler[2] >> \o c.flags \o output[2] \o << file[2] >> ])

\* The closure of try_from: the Entry of one source, or the first error.
entry_of_source(c, source) ==
    LET compiler == into_string(c.compiler)
        output == IF c.output = None THEN Ok(<< >>)
                  ELSE LET o == into_string(c.output[1])
                       IN  IF o[1] = "Ok" THEN Ok(<< << "-", "o" >>, o[2] >>) ELSE o
        text == into_string(source)
        file == into_abspath(source, c.working_dir)
        out == into_abspath_opt(c.output, c.working_dir)
    IN  IF compiler[1] = "Err" THEN compiler
        ELSE IF output[1] = "Err" THEN output
        ELSE IF text[1] = "Err" THEN text
        ELSE IF file[1] = "Err" THEN file
        ELSE IF out[1] = "Err" THEN out
        ELSE Ok([ file |-> file[2],
                  directory |-> c.working_dir,
                  output |-> out[2],
                  arguments |-> << compiler[2] >> \o c.flags \o output[2] \o << text[2] >> ])

\* Mutant: the results that are errors are left out.
RECURSIVE collect_skipping_errors(_, _, _)
collect_skipping_errors(results, i, acc) ==
    IF i > Len(results) THEN Ok(acc)
    ELSE IF results[i][1] = "Err" THEN collect_skipping_errors(results, i + 1, acc)
    ELSE collect_skipping_errors(results, i + 1, Append(acc, results[i][2]))

\* Iterator::collect into Result<Vec<_>, _>: the first error, or every value.
RECURSIVE collect(_, _, _)
collect(results, i, acc) ==
    IF i > Len(results) THEN Ok(acc)
    ELSE IF results[i][1] = "Err" THEN results[i]
    ELSE collect(results, i + 1, Append(acc, results[i][2]))

\* Mutant: the first source is left out.
try_from_skipping_first(call) ==
    IF call[1] = "Compile"
    THEN collect([ i \in 1..(Len(call[2].sources) - 1) |->
                     entry_of_source(call[2], call[2].sources[i + 1]) ],
                 1, << >>)
    ELSE Ok(<< >>)

\* Mutant: every entry is built from the first source.
try_from_first_source_only(call) ==
    IF call[1] = "Compile"
    THEN collect([ i \in 1..Len(call[2].sources) |-> entry_of_source(call[2], call[2].sources[1]) ],
                 1, << >>)
    ELSE Ok(<< >>)

\* impl TryFrom<CompilerCall> for Vec<Entry>
try_from(call) ==
    IF call[1] = "Compile"
    THEN collect([ i \in 1..Len(call[2].sources) |-> entry_of_source(call[2], call[2].sources[i]) ],
                 1, << >>)
    ELSE Ok(<< >>)

\* The body of the worker loop: the entries the worker sends for one
\* execution, in order (every other arm of the match only logs).
worker_entries(t, x) ==
    LET r == recognize(t, x)
    IN  IF IsRecognized(r) /\ r[2][1] = "Ok" /\ r[2][2][1] = "Compiler"
        THEN LET entries == try_from(r[2][2][2])
             IN  IF entries[1] = "Ok" THEN entries[2] ELSE << >>
        ELSE << >>

\* ------------------------------------------------------------------- state
VARIABLES
    duplicate_filter_fields, \* the policy the filter instance was built from
    have_seen,               \* the filter closure's set of hashes
    fed,                     \* history: the entries evaluated, in order
    verdicts,                \* history: the predicate's answer for each of them
    compilation,             \* Configuration.compilation: Option<Compilation>
    tool,                    \* the Box<dyn Tool> under test / built by each worker
    execution,               \* Option: the execution last handed to tool.recognize
    result,                  \* Option: what that call returned
    calls,                   \* history: the leaf tools that call consulted, in order
    expanded,                \* what the body of the worker loop yields per execution
    call,                    \* Option: the CompilerCall handed to try_from
    converted,               \* Option: what try_from returned for it
    argument,                \* Option: the text handed to looks_like_a_source_file
    looks,                   \* Option: what it returned
    append,                  \* Arguments::append
    to_stdout,               \* Arguments::output is "-" or "/dev/stdout"
    input,                   \* the input file: None (cannot be opened) or its records
    prior,                   \* history: the output file as it was before the run
    destination,             \* the output file: None (absent) or its records
    temp,                    \* the file "<output>.tmp": None (absent) or its records
    stdout,                  \* the records written to the standard output
    tpc,                     \* where the spawned thread of run() is
    rpos,                    \* the next input record the reader decodes
    copy_source,             \* the records copy_entries reads from the opened file
    cpos,                    \* the next record copy_entries decodes
    exec_chan,               \* bounded::<Execution>: the executions queued
    wpc,                     \* where each worker thread is
    wpending,                \* the entries a worker has still to send
    entry_chan,              \* bounded::<Entry>: the entries queued
    cpc,                     \* where the consumer (the caller's thread in run()) is
    taken,                   \* history: the workers that received each input record
    arrived,                 \* history: the origin of each entry evaluated, in order
    failed                   \* history: the file operations that failed

filterVars == << duplicate_filter_fields, have_seen, fed, verdicts >>
pureVars == << call, converted, argument, looks >>
toolVars == << compilation, tool, execution, result, calls, expanded, pureVars >>
fileVars == << append, to_stdout, input, prior, destination, temp, stdout >>
threadVars == << tpc, rpos, copy_source, cpos >>
workerVars == << exec_chan, wpc, wpending, taken >>
consumerVars == << entry_chan, cpc, arrived >>
historyVars == << failed >>
pipeVars == << fileVars, threadVars, workerVars, consumerVars, historyVars >>

vars == << filterVars, toolVars, pipeVars >>

SeqsUpTo(S, n) == UNION { [ 1..k -> S ] : k \in 0..n }

\* ------------------------------------------------------- duplicate filter
\* The 64-bit digest of DefaultHasher is represented by the sequence of
\* values written to the hasher: two digests are equal exactly when the
\* same field values were written in the same order.
hash_source(entry) == << entry.file >>

\* Mutant: the output is left out of the file_output key.
hash_source_and_output_without_output(entry) == << entry.file >>

hash_source_and_output(entry) == << entry.file, entry.output >>

hash_all(entry) == << entry.file, entry.directory, entry.arguments >>

DuplicateFilterFieldsValues == { "FileOnly", "FileAndOutputOnly", "All" }

hash(fields, entry) ==
    CASE fields = "FileOnly" -> hash_source(entry)
      [] fields = "FileAndOutputOnly" -> hash_source_and_output(entry)
      [] fields = "All" -> hash_all(entry)

\* The closure's answer for one entry, given the set it has captured.
duplicate_predicate(fields, seen, entry) ==
    ~ (hash(fields, entry) \in seen)

\* The set the closure holds after answering for the entry.
duplicate_insert(fields, seen, entry) ==
    IF ~ (hash(fields, entry) \in seen)
    THEN seen \cup { hash(fields, entry) }
    ELSE seen

\* One evaluation of the predicate: answer, update the set, keep the history.
FilterEvaluate(entry) ==
    /\ verdicts' = Append(verdicts, duplicate_predicate(duplicate_filter_fields, have_seen, entry))
    /\ have_seen' = duplicate_insert(duplicate_filter_fields, have_seen, entry)
    /\ fed' = Append(fed, entry)
    /\ UNCHANGED duplicate_filter_fields

\* ------------------------------------------- the filter fed any sequence
FilterEntries ==
    [ file : { P_w_a_c, P_w_b_c },
      directory : { P_w, P_v },
      arguments : { << S_cc, S_a_c >>, << S_cc, S_dash_c, S_a_c >> },
      output : { None, Some(P_w_a_o) } ]

NewFilter ==
    /\ duplicate_filter_fields \in DuplicateFilterFieldsValues
    /\ have_seen = {}
    /\ fed = << >>
    /\ verdicts = << >>

\* No pure function has been applied.
NoCall ==
    /\ call = None
    /\ converted = None
    /\ argument = None
    /\ looks = None

NoTool ==
    /\ NoCall
    /\ compilation = None
    /\ tool = AnyTool(<< >>)
    /\ execution = None
    /\ result = None
    /\ calls = << >>
    /\ expanded = << >>

\* The pipeline before Application::run is called.
NoRun ==
    /\ append = FALSE
    /\ to_stdout = FALSE
    /\ input = None
    /\ prior = None
    /\ destination = None
    /\ temp = None
    /\ stdout = << >>
    /\ tpc = "open_input"
    /\ rpos = 1
    /\ copy_source = << >>
    /\ cpos = 1
    /\ exec_chan = << >>
    /\ wpc = [ w \in 1..NumWorkers |-> "recv" ]
    /\ wpending = [ w \in 1..NumWorkers |-> << >> ]
    /\ entry_chan = << >>
    /\ cpc = "create"
    /\ taken = [ i \in 1..MaxInput |-> << >> ]
    /\ arrived = << >>
    /\ failed = {}

FilterInit ==
    /\ NewFilter
    /\ NoTool
    /\ NoRun

Feed ==
    /\ Len(fed) < MaxFeed
    /\ \E entry \in FilterEntries : FilterEvaluate(entry)
    /\ UNCHANGED << toolVars, pipeVars >>

FilterNext == Feed

SpecFilter == FilterInit /\ [][FilterNext]_vars

\* The active key of an entry under a policy, as the specification names it.
ActiveKey(fields, entry) ==
    CASE fields = "FileOnly" -> << "file", entry.file >>
      [] fields = "FileAndOutputOnly" -> << "file_output", entry.file, entry.output >>
      [] fields = "All" -> << "all", entry.file, entry.directory, entry.arguments >>

Retained == { i \in 1..Len(fed) : verdicts[i] }

\* C1: under every policy, the i-th entry fed to a filter instance passes iff
\* no earlier entry has the same active key (file / file,output /
\* file,directory,arguments); so exactly one entry, the first, is retained per
\* distinct key, and the seen-set holds one element per distinct key fed.
C1_FirstPerKeyPasses ==
    /\ Len(verdicts) = Len(fed)
    /\ \A i \in 1..Len(fed) :
          verdicts[i] <=>
              ~ \E j \in 1..(i - 1) :
                    ActiveKey(duplicate_filter_fields, fed[j])
                        = ActiveKey(duplicate_filter_fields, fed[i])
    /\ \A i \in 1..Len(fed) :
          Cardinality({ r \in Retained :
                ActiveKey(duplicate_filter_fields, fed[r])
                    = ActiveKey(duplicate_filter_fields, fed[i]) }) = 1
    /\ \A i \in 1..Len(fed) : hash(duplicate_filter_fields, fed[i]) \in have_seen
    /\ Cardinality(have_seen) = Cardinality(Retained)

\* C1 witness: two entries that differ only outside the active key were fed
\* and the second one was suppressed.
C1_Witness ==
    /\ Len(fed) >= 2
    /\ fed[1] # fed[2]
    /\ ActiveKey(duplicate_filter_fields, fed[1]) = ActiveKey(duplicate_filter_fields, fed[2])
    /\ verdicts[1]
    /\ ~ verdicts[2]

\* ------------------------------------------- the recognizer chain applied
R_cc_policy ==
    [ executable |-> P_cc, flags_to_add |-> << S_dash_W >>, flags_to_remove |-> << S_dash_c >> ]
R_cc_plain ==
    [ executable |-> P_cc, flags_to_add |-> << >>, flags_to_remove |-> << >> ]
R_gcc_policy ==
    [ executable |-> P_gcc, flags_to_add |-> << S_dash_W >>, flags_to_remove |-> << >> ]

ConfiguredEntries == { R_cc_policy, R_cc_plain, R_gcc_policy }
ExcludedPaths == { P_cc, P_gcc }

Compilations ==
    [ compilers_to_recognize : SeqsUpTo(ConfiguredEntries, MaxConfigured),
      compilers_to_exclude : SeqsUpTo(ExcludedPaths, MaxExcluded) ]

MockTools == { MockTool(b) : b \in { "Recognize", "RecognizeFailed", "NotRecognize" } }

\* Tools composed by hand, as the unit tests of tools.rs compose them.
ComposedTools ==
    { AnyTool(ts) : ts \in SeqsUpTo(MockTools \cup { ConfiguredTool(R_cc_policy) }, MaxTools) }
    \cup { ExcludeOrTool(<< P_cc >>, t) : t \in MockTools }

ToolExecutions ==
    { Execution(e, a, P_w) :
        e \in { P_cc, P_gcc, P_ls, P_mk },
        a \in { << S_cc, S_dash_c, S_a_c >>, << S_cc, S_a_c, S_b_c >>, << S_cc, S_dash_v >> } }

ToolsInit ==
    /\ \/ /\ compilation \in { Some(c) : c \in Compilations }
          /\ tool = tool_from(compilation[1])
       \/ /\ compilation = None
          /\ tool \in ComposedTools
    /\ execution = None
    /\ result = None
    /\ calls = << >>
    /\ expanded = << >>
    /\ NoCall
    /\ duplicate_filter_fields = "FileOnly"
    /\ have_seen = {}
    /\ fed = << >>
    /\ verdicts = << >>
    /\ NoRun

ToolRecognize ==
    /\ \E x \in ToolExecutions :
          /\ execution' = Some(x)
          /\ result' = Some(recognize(tool, x))
          /\ calls' = consulted(tool, x)
    /\ UNCHANGED << compilation, tool, expanded, pureVars >>
    /\ UNCHANGED << filterVars, pipeVars >>

ToolsNext == ToolRecognize

SpecTools == ToolsInit /\ [][ToolsNext]_vars

Applied == result # None

\* C8: ExcludeOr answers NotRecognized, consulting nothing, for an executable on
\* its deny list, and answers what its delegate answers otherwise; a chain built
\* from a configuration with a non-empty exclude list never recognizes an
\* excluded executable, also when it is listed in compilers_to_recognize.
C8_ExclusionPrecedence ==
    Applied =>
        LET x == execution[1]
        IN  /\ tool.kind = "ExcludeOr" =>
                  IF Contains(tool.excludes, x.executable)
                  THEN result[1] = NotRecognized /\ calls = << >>
                  ELSE result[1] = recognize(tool.or, x) /\ calls = consulted(tool.or, x)
            /\ ( /\ compilation # None
                 /\ Contains(compilation[1].compilers_to_exclude, x.executable) )
                  => ~ IsRecognized(result[1])

\* C8 witness: an executable both configured and excluded was handed to the
\* chain built from the configuration.
C8_Witness ==
    /\ Applied
    /\ compilation # None
    /\ Contains(compilation[1].compilers_to_exclude, execution[1].executable)
    /\ \E i \in 1..Len(compilation[1].compilers_to_recognize) :
          compilation[1].compilers_to_recognize[i].executable = execution[1].executable
    /\ result[1] = NotRecognized

Min(S) == CHOOSE m \in S : \A n \in S : m <= n

\* C9: Any answers what the first tool, in list order, that answers
\* Recognized(..) answers, Ok or Err, and NotRecognized iff every tool answers
\* NotRecognized; a Recognized(Err) is not overridden by a later Recognized(Ok).
C9_AnyFirstMatchWins ==
    (Applied /\ tool.kind = "Any") =>
        LET x == execution[1]
            hits == { i \in 1..Len(tool.tools) : IsRecognized(recognize(tool.tools[i], x)) }
        IN  /\ hits = {} <=> result[1] = NotRecognized
            /\ hits # {} => result[1] = recognize(tool.tools[Min(hits)], x)

\* C9 witness: a tool answering Recognized(Err) stands before one answering
\* Recognized(Ok), and Any answered the Err.
C9_Witness ==
    /\ Applied
    /\ tool.kind = "Any"
    /\ \E i, j \in 1..Len(tool.tools) :
          /\ i < j
          /\ tool.tools[i] = MockTool("RecognizeFailed")
          /\ tool.tools[j] = MockTool("Recognize")
          /\ \A k \in 1..(i - 1) : tool.tools[k] = MockTool("NotRecognize")
    /\ result[1] = Recognized(Err("problem"))

\* The leaf tools of the chain a configuration asks for: one Configured per
\* entry, in configuration order, then the generic matcher.
ConfiguredThenGeneric(c) ==
    [ i \in 1..Len(c.compilers_to_recognize) |-> ConfiguredTool(c.compilers_to_recognize[i]) ]
        \o << WrapperTool >>

FirstConfigured(c, x) ==
    Min({ i \in 1..Len(c.compilers_to_recognize) :
            c.compilers_to_recognize[i].executable = x.executable })

IsConfigured(c, x) ==
    \E i \in 1..Len(c.compilers_to_recognize) :
        c.compilers_to_recognize[i].executable = x.executable

\* The order and the wrapping of the chain built from a configuration.
ChainOrder ==
    (Applied /\ compilation # None) =>
        LET c == compilation[1]
        IN  /\ tool.kind = "ExcludeOr" <=> c.compilers_to_exclude # << >>
            /\ Len(calls) <= Len(ConfiguredThenGeneric(c))
            /\ calls = SubSeq(ConfiguredThenGeneric(c), 1, Len(calls))

\* C10 as stated: the configured compilers are consulted in configuration
\* order, all before the generic matcher, the chain is wrapped in ExcludeOr iff
\* the exclude list is non-empty, and for every execution whose executable
\* equals a configured entry the chain answers what the first such entry answers.
C10_Original ==
    /\ ChainOrder
    /\ (Applied /\ compilation # None /\ IsConfigured(compilation[1], execution[1])) =>
          result[1] = configured_recognize(
              compilation[1].compilers_to_recognize[FirstConfigured(compilation[1], execution[1])],
              execution[1])

\* C10 amended: as C10, for every execution whose executable equals a
\* configured entry and is not on the exclude list.
C10_ChainComposition ==
    /\ ChainOrder
    /\ ( /\ Applied
         /\ compilation # None
         /\ IsConfigured(compilation[1], execution[1])
         /\ ~ Contains(compilation[1].compilers_to_exclude, execution[1].executable) ) =>
          result[1] = configured_recognize(
              compilation[1].compilers_to_recognize[FirstConfigured(compilation[1], execution[1])],
              execution[1])

\* C10 witness: an executable the generic matcher knows is configured twice
\* over; the first configured entry decided, an Err included.
C10_Witness ==
    /\ Applied
    /\ compilation # None
    /\ Len(compilation[1].compilers_to_recognize) = 2
    /\ compilation[1].compilers_to_recognize[1] # compilation[1].compilers_to_recognize[2]
    /\ compilation[1].compilers_to_recognize[1].executable = execution[1].executable
    /\ compilation[1].compilers_to_recognize[2].executable = execution[1].executable
    /\ ~ Contains(compilation[1].compilers_to_exclude, execution[1].executable)
    /\ result[1] = Recognized(Err("source file is not found"))
    /\ calls = << ConfiguredTool(compilation[1].compilers_to_recognize[1]) >>

\* ------------------------------------------------------------ the pipeline
R_raw ==
    [ executable |-> P_raw, flags_to_add |-> << >>, flags_to_remove |-> << >> ]

\* The configuration of the pipeline runs.
PipelineCompilation ==
    [ compilers_to_recognize |-> << R_cc_policy, R_raw >>,
      compilers_to_exclude |-> << P_ls >> ]

X_one == Execution(P_cc, << S_cc, S_dash_c, S_a_c >>, P_w)
X_two == Execution(P_cc, << S_cc, S_a_c, S_b_c >>, P_w)
X_nosrc == Execution(P_cc, << S_cc, S_dash_v >>, P_w)
X_excluded == Execution(P_ls, << S_cc, S_a_c >>, P_w)
X_build == Execution(P_mk, << S_cc, S_a_c >>, P_w)
X_raw == Execution(P_raw, << S_cc, S_a_c >>, P_w)

\* What the event reader yields for one record of the input stream.
PipelineExecutions == { X_one, X_two, X_nosrc, X_excluded, X_build, X_raw }

InputRecords == { Ok(x) : x \in PipelineExecutions } \cup { Err("decode") }

\* An entry of an earlier run: the file of X_one, other arguments.
E_prior ==
    [ file |-> P_w_a_c, directory |-> P_w, output |-> None,
      arguments |-> << P_cc, S_a_c >> ]

PriorRecords == { Ok(E_prior), Err("decode") }

Files(records, n) == { None } \cup { Some(f) : f \in SeqsUpTo(records, n) }

\* The state at the start of run() on one of the given input and prior output
\* files; n bounds the number of records of an input.
Start(inputs, priors, n) ==
    /\ NewFilter
    /\ compilation = Some(PipelineCompilation)
    /\ tool = tool_from(PipelineCompilation)
    /\ execution = None
    /\ result = None
    /\ calls = << >>
    /\ NoCall
    /\ expanded = [ x \in PipelineExecutions |-> worker_entries(tool, x) ]
    /\ append \in BOOLEAN
    /\ to_stdout \in IF append THEN { FALSE } ELSE BOOLEAN
    /\ input \in inputs
    /\ prior \in IF to_stdout THEN { None } ELSE priors
    /\ destination = prior
    /\ temp = None
    /\ stdout = << >>
    /\ tpc = "open_input"
    /\ rpos = 1
    /\ copy_source = << >>
    /\ cpos = 1
    /\ exec_chan = << >>
    /\ wpc = [ w \in 1..NumWorkers |-> "recv" ]
    /\ wpending = [ w \in 1..NumWorkers |-> << >> ]
    /\ entry_chan = << >>
    /\ cpc = "create"
    /\ taken = [ i \in 1..n |-> << >> ]
    /\ arrived = << >>
    /\ failed = {}

Init == Start(Files(InputRecords, MaxInput), Files(PriorRecords, MaxPrior), MaxInput)

\* The Sender<Execution> and the Receiver<Execution> local to
\* process_executions live until it returns.
ExecutionSenderAlive == tpc \in { "open_input", "read" }

\* The Sender<Entry> moved into the spawned thread lives until the thread
\* ends; each worker holds a clone until its closure ends.
thread_sender_kept_by_caller == cpc \notin { "ok", "err", "panicked" }
ThreadSenderAlive == tpc \notin { "done", "panicked" }
WorkerAlive(w) == wpc[w] \in { "recv", "send" }
EntrySendersAlive == ThreadSenderAlive \/ \E w \in 1..NumWorkers : WorkerAlive(w)

\* The Receiver<Entry> lives until run() returns or unwinds.
EntryReceiverAlive == cpc \notin { "ok", "err", "panicked" }

\* Receiver::iter ends when the channel is empty and every sender is dropped.
iter_ended(chan, senders_alive) == chan = << >> /\ ~ senders_alive

\* A send that never waits for room.
can_send_unbounded(chan, capacity) == TRUE

\* Sender::send on a bounded channel returns once there is room.
can_send(chan, capacity) == Len(chan) < capacity

\* -- the spawned thread: process_executions, then copy_entries
ReaderOpenInput ==
    /\ tpc = "open_input"
    /\ tpc' = IF input = None THEN "panicked" ELSE "read"
    /\ failed' = IF input = None THEN failed \cup { "input" } ELSE failed
    /\ UNCHANGED << rpos, copy_source, cpos >>
    /\ UNCHANGED << filterVars, toolVars, fileVars, workerVars, consumerVars >>

ReaderSend ==
    /\ tpc = "read"
    /\ rpos <= Len(input[1])
    /\ input[1][rpos][1] = "Ok"
    /\ can_send(exec_chan, ExecutionCapacity)
    /\ exec_chan' = Append(exec_chan, [ execution |-> input[1][rpos][2], id |-> rpos ])
    /\ rpos' = rpos + 1
    /\ UNCHANGED << tpc, copy_source, cpos, wpc, wpending, taken >>
    /\ UNCHANGED << filterVars, toolVars, fileVars, consumerVars, historyVars >>

ReaderSkip ==
    /\ tpc = "read"
    /\ rpos <= Len(input[1])
    /\ input[1][rpos][1] = "Err"
    /\ rpos' = rpos + 1
    /\ UNCHANGED << tpc, copy_source, cpos >>
    /\ UNCHANGED << filterVars, toolVars, fileVars, workerVars, consumerVars, historyVars >>

ReaderClose ==
    /\ tpc = "read"
    /\ rpos > Len(input[1])
    /\ tpc' = IF append THEN "copy_open" ELSE "done"
    /\ UNCHANGED << rpos, copy_source, cpos >>
    /\ UNCHANGED << filterVars, toolVars, fileVars, workerVars, consumerVars, historyVars >>

CopyOpen ==
    /\ tpc = "copy_open"
    /\ IF destination = None
       THEN tpc' = "panicked" /\ failed' = failed \cup { "prior" } /\ UNCHANGED copy_source
       ELSE tpc' = "copy" /\ copy_source' = destination[1] /\ UNCHANGED failed
    /\ UNCHANGED << rpos, cpos >>
    /\ UNCHANGED << filterVars, toolVars, fileVars, workerVars, consumerVars >>

CopySend ==
    /\ tpc = "copy"
    /\ cpos <= Len(copy_source)
    /\ copy_source[cpos][1] = "Ok"
    /\ EntryReceiverAlive
    /\ can_send(entry_chan, EntryCapacity)
    /\ entry_chan' = Append(entry_chan,
            [ entry |-> copy_source[cpos][2], origin |-> << "prior", cpos, 1 >> ])
    /\ cpos' = cpos + 1
    /\ UNCHANGED << tpc, rpos, copy_source, cpc, arrived >>
    /\ UNCHANGED << filterVars, toolVars, fileVars, workerVars, historyVars >>

CopySendFails ==
    /\ tpc = "copy"
    /\ cpos <= Len(copy_source)
    /\ copy_source[cpos][1] = "Ok"
    /\ ~ EntryReceiverAlive
    /\ tpc' = "panicked"
    /\ UNCHANGED << rpos, copy_source, cpos >>
    /\ UNCHANGED << filterVars, toolVars, fileVars, workerVars, consumerVars, historyVars >>

CopySkip ==
    /\ tpc = "copy"
    /\ cpos <= Len(copy_source)
    /\ copy_source[cpos][1] = "Err"
    /\ cpos' = cpos + 1
    /\ UNCHANGED << tpc, rpos, copy_source >>
    /\ UNCHANGED << filterVars, toolVars, fileVars, workerVars, consumerVars, historyVars >>

CopyDone ==
    /\ tpc = "copy"
    /\ cpos > Len(copy_source)
    /\ tpc' = "done"
    /\ UNCHANGED << rpos, copy_source, cpos >>
    /\ UNCHANGED << filterVars, toolVars, fileVars, workerVars, consumerVars, historyVars >>

ThreadStep ==
    \/ ReaderOpenInput
    \/ ReaderSend
    \/ ReaderSkip
    \/ ReaderClose
    \/ CopyOpen
    \/ CopySend
    \/ CopySendFails
    \/ CopySkip
    \/ CopyDone

\* -- a worker thread. Every worker builds the same tool from the configuration
\* before its loop; the body of the loop is a function of the tool and the
\* execution, tabulated in expanded when the tools are built.
Tagged(entries, id) ==
    [ k \in 1..Len(entries) |-> [ entry |-> entries[k], origin |-> << "exec", id, k >> ] ]

WorkerRecvEndsOnNoEntry(w) ==
    /\ wpc[w] = "recv"
    /\ exec_chan # << >>
    /\ LET item == Head(exec_chan)
           entries == Tagged(expanded[item.execution], item.id)
       IN  /\ exec_chan' = Tail(exec_chan)
           /\ taken' = [ taken EXCEPT ![item.id] = Append(@, w) ]
           /\ wpending' = [ wpending EXCEPT ![w] = entries ]
           /\ wpc' = [ wpc EXCEPT ![w] = IF entries = << >> THEN "exited" ELSE "send" ]
    /\ UNCHANGED << filterVars, toolVars, fileVars, threadVars, consumerVars, historyVars >>

WorkerRecv(w) ==
    /\ wpc[w] = "recv"
    /\ exec_chan # << >>
    /\ LET item == Head(exec_chan)
           entries == Tagged(expanded[item.execution], item.id)
       IN  /\ exec_chan' = Tail(exec_chan)
           /\ taken' = [ taken EXCEPT ![item.id] = Append(@, w) ]
           /\ wpending' = [ wpending EXCEPT ![w] = entries ]
           /\ wpc' = [ wpc EXCEPT ![w] = IF entries = << >> THEN "recv" ELSE "send" ]
    /\ UNCHANGED << filterVars, toolVars, fileVars, threadVars, consumerVars, historyVars >>

\* A worker that sends the entries of an execution from the last one.
WorkerSendLastFirst(w) ==
    /\ wpc[w] = "send"
    /\ EntryReceiverAlive
    /\ can_send(entry_chan, EntryCapacity)
    /\ entry_chan' = Append(entry_chan, wpending[w][Len(wpending[w])])
    /\ wpending' = [ wpending EXCEPT ![w] = SubSeq(@, 1, Len(@) - 1) ]
    /\ wpc' = [ wpc EXCEPT ![w] = IF Len(wpending[w]) = 1 THEN "recv" ELSE "send" ]
    /\ UNCHANGED << exec_chan, taken, cpc, arrived >>
    /\ UNCHANGED << filterVars, toolVars, fileVars, threadVars, historyVars >>

WorkerSend(w) ==
    /\ wpc[w] = "send"
    /\ EntryReceiverAlive
    /\ can_send(entry_chan, EntryCapacity)
    /\ entry_chan' = Append(entry_chan, Head(wpending[w]))
    /\ wpending' = [ wpending EXCEPT ![w] = Tail(@) ]
    /\ wpc' = [ wpc EXCEPT ![w] = IF Tail(wpending[w]) = << >> THEN "recv" ELSE "send" ]
    /\ UNCHANGED << exec_chan, taken, cpc, arrived >>
    /\ UNCHANGED << filterVars, toolVars, fileVars, threadVars, historyVars >>

WorkerSendFails(w) ==
    /\ wpc[w] = "send"
    /\ ~ EntryReceiverAlive
    /\ wpc' = [ wpc EXCEPT ![w] = "panicked" ]
    /\ UNCHANGED << exec_chan, wpending, taken >>
    /\ UNCHANGED << filterVars, toolVars, fileVars, threadVars, consumerVars, historyVars >>

WorkerExit(w) ==
    /\ wpc[w] = "recv"
    /\ iter_ended(exec_chan, ExecutionSenderAlive)
    /\ wpc' = [ wpc EXCEPT ![w] = "exited" ]
    /\ UNCHANGED << exec_chan, wpending, taken >>
    /\ UNCHANGED << filterVars, toolVars, fileVars, threadVars, consumerVars, historyVars >>

WorkerStep(w) ==
    \/ WorkerRecv(w)
    \/ WorkerSend(w)
    \/ WorkerSendFails(w)
    \/ WorkerExit(w)

\* -- the consumer: the rest of Application::run
ConsumerStdout ==
    /\ cpc = "create"
    /\ to_stdout
    /\ cpc' = "write"
    /\ UNCHANGED << entry_chan, arrived >>
    /\ UNCHANGED << filterVars, toolVars, fileVars, threadVars, workerVars, historyVars >>

ConsumerCreate ==
    /\ cpc = "create"
    /\ ~ to_stdout
    /\ temp' = Some(<< >>)
    /\ cpc' = "write"
    /\ UNCHANGED << append, to_stdout, input, prior, destination, stdout >>
    /\ UNCHANGED << entry_chan, arrived >>
    /\ UNCHANGED << filterVars, toolVars, threadVars, workerVars, historyVars >>

ConsumerCreateFails ==
    /\ cpc = "create"
    /\ ~ to_stdout
    /\ cpc' = "err"
    /\ failed' = failed \cup { "create" }
    /\ UNCHANGED << entry_chan, arrived >>
    /\ UNCHANGED << filterVars, toolVars, fileVars, threadVars, workerVars >>

\* What a call of a closure comes to: a value, or a panic.
Returned(v) == << "Returned", v >>
Panicked == << "Panicked" >>

\* The predicate built from Content. The predicate for duplicates is built
\* when the filter is, but the closure never calls it: its body is todo!(),
\* which panics, whatever the configuration and the entry.
content_predicate(fields, seen, entry) == Panicked

\* One turn of rcv.iter().filter(filter) inside json_compilation_db::write:
\* the entry is received and handed to the predicate; an entry for which the
\* predicate returns true is written. A panic of the predicate unwinds run().
ConsumerNext ==
    /\ cpc = "write"
    /\ entry_chan # << >>
    /\ LET item == Head(entry_chan)
           outcome == content_predicate(duplicate_filter_fields, have_seen, item.entry)
       IN  /\ entry_chan' = Tail(entry_chan)
           /\ arrived' = Append(arrived, item.origin)
           /\ fed' = Append(fed, item.entry)
           /\ IF outcome = Panicked
              THEN /\ cpc' = "panicked"
                   /\ UNCHANGED << verdicts, temp, stdout >>
              ELSE /\ UNCHANGED cpc
                   /\ verdicts' = Append(verdicts, outcome[2])
                   /\ IF ~ outcome[2] THEN UNCHANGED << temp, stdout >>
                      ELSE IF to_stdout
                           THEN stdout' = Append(stdout, Ok(item.entry)) /\ UNCHANGED temp
                      ELSE temp' = Some(Append(temp[1], Ok(item.entry))) /\ UNCHANGED stdout
    /\ UNCHANGED << duplicate_filter_fields, have_seen >>
    /\ UNCHANGED << append, to_stdout, input, prior, destination >>
    /\ UNCHANGED << toolVars, threadVars, workerVars, historyVars >>

ConsumerWriteErrorIgnored ==
    /\ cpc = "write"
    /\ iter_ended(entry_chan, EntrySendersAlive)
    /\ UNCHANGED cpc
    /\ failed' = failed \cup { "write" }
    /\ UNCHANGED << entry_chan, arrived >>
    /\ UNCHANGED << filterVars, toolVars, fileVars, threadVars, workerVars >>

\* Writing the database out fails once the iterator has ended:
\* json_compilation_db::write returns the error.
ConsumerWriteFails ==
    /\ cpc = "write"
    /\ iter_ended(entry_chan, EntrySendersAlive)
    /\ cpc' = "err"
    /\ failed' = failed \cup { "write" }
    /\ UNCHANGED << entry_chan, arrived >>
    /\ UNCHANGED << filterVars, toolVars, fileVars, threadVars, workerVars >>

ConsumerFinish ==
    /\ cpc = "write"
    /\ iter_ended(entry_chan, EntrySendersAlive)
    /\ cpc' = IF to_stdout THEN "ok" ELSE "rename"
    /\ UNCHANGED << entry_chan, arrived >>
    /\ UNCHANGED << filterVars, toolVars, fileVars, threadVars, workerVars, historyVars >>

ConsumerRename ==
    /\ cpc = "rename"
    /\ destination' = temp
    /\ temp' = None
    /\ cpc' = "ok"
    /\ UNCHANGED << append, to_stdout, input, prior, stdout >>
    /\ UNCHANGED << entry_chan, arrived >>
    /\ UNCHANGED << filterVars, toolVars, threadVars, workerVars, historyVars >>

ConsumerRenameFails ==
    /\ cpc = "rename"
    /\ cpc' = "err"
    /\ failed' = failed \cup { "rename" }
    /\ UNCHANGED << entry_chan, arrived >>
    /\ UNCHANGED << filterVars, toolVars, fileVars, threadVars, workerVars >>

ConsumerStep ==
    \/ ConsumerStdout
    \/ ConsumerCreate
    \/ ConsumerCreateFails
    \/ ConsumerNext
    \/ ConsumerWriteFails
    \/ ConsumerFinish
    \/ ConsumerRename
    \/ ConsumerRenameFails

Next ==
    \/ ThreadStep
    \/ \E w \in 1..NumWorkers : WorkerStep(w)
    \/ ConsumerStep

Spec == Init /\ [][Next]_vars

\* The runs for termination: inputs of up to MaxLiveInput records, each an
\* execution that expands into two entries or a record that does not decode,
\* so that both channels fill while every worker holds an entry to send.
LiveInputRecords == { Ok(X_two), Err("decode") }

InitLive ==
    Start(Files(LiveInputRecords, MaxLiveInput), Files(PriorRecords, MaxLivePrior), MaxLiveInput)

\* Every thread is scheduled: the spawned thread, each worker, and the main
\* thread running the consumer.
Fairness ==
    /\ WF_vars(ThreadStep)
    /\ \A w \in 1..NumWorkers : WF_vars(WorkerStep(w))
    /\ WF_vars(ConsumerStep)

SpecLive == InitLive /\ [][Next]_vars /\ Fairness

\* ------------------------------------------------- claims on the pipeline
Range(seq) == { seq[i] : i \in 1..Len(seq) }
OkIndices(records) == { i \in 1..Len(records) : records[i][1] = "Ok" }
KeysOf(records) ==
    { ActiveKey(duplicate_filter_fields, records[i][2]) : i \in OkIndices(records) }

\* The entries that passed the filter so far, in order, as records of a file.
RECURSIVE PassedFrom(_)
PassedFrom(i) ==
    IF i > Len(verdicts) THEN << >>
    ELSE IF verdicts[i] THEN << Ok(fed[i]) >> \o PassedFrom(i + 1)
    ELSE PassedFrom(i + 1)

Passed == PassedFrom(1)

\* Every thread that can send an entry has ended and nothing is queued.
Quiescent ==
    /\ tpc \in { "done", "panicked" }
    /\ \A w \in 1..NumWorkers : wpc[w] \in { "exited", "panicked" } /\ wpending[w] = << >>
    /\ exec_chan = << >>
    /\ entry_chan = << >>

DecodedInput == IF input = None THEN {} ELSE OkIndices(input[1])

\* The outcomes of the worker loop that only log: NotRecognized,
\* Recognized(Err), a semantic that is no compiler call, a conversion error.
NonEntryOutcome(x) ==
    LET r == recognize(tool, x)
    IN  \/ r = NotRecognized
        \/ r[2][1] = "Err"
        \/ r[2][2][1] # "Compiler"
        \/ try_from(r[2][2][2])[1] = "Err"

Produced ==
    UNION { { << "exec", i, k >> : k \in 1..Len(worker_entries(tool, input[1][i][2])) } :
            i \in DecodedInput }

PriorDecoded == { << "prior", j, 1 >> : j \in OkIndices(copy_source) }

\* C2 as stated: in append mode the written database holds only entries that
\* passed the one filter, at most one per duplicate key, and every key of the
\* prior output is a key of the new output.
C2_AppendMergesPriorOutput ==
    (append /\ cpc = "ok") =>
        /\ destination = Some(Passed)
        /\ \A i, j \in 1..Len(destination[1]) :
              ActiveKey(duplicate_filter_fields, destination[1][i][2])
                  = ActiveKey(duplicate_filter_fields, destination[1][j][2]) => i = j
        /\ prior # None => KeysOf(prior[1]) \subseteq KeysOf(destination[1])

\* C3 as stated: the consumer stops, other than on a failure to create, write
\* or rename, only with every sender ended and nothing queued; when run()
\* returns success every decoded execution was received by exactly one worker
\* exactly once and every entry produced by a worker or decoded by
\* copy_entries was evaluated by the filter exactly once.
C3_NoLossNoDuplication ==
    /\ (cpc \notin { "create", "write" } /\ failed \cap { "create", "write", "rename" } = {})
          => Quiescent
    /\ Len(verdicts) = Len(fed)
    /\ cpc = "ok" =>
          /\ \A i \in 1..MaxInput : Len(taken[i]) = IF i \in DecodedInput THEN 1 ELSE 0
          /\ Range(arrived) = Produced \cup PriorDecoded
          /\ Len(arrived) = Cardinality(Range(arrived))
          /\ Len(fed) = Len(arrived)

\* C5: with a file as destination, the destination holds its pre-run content
\* until the rename and the complete new database after it; entries are
\* written to the temporary file only; the rename happens only with every
\* sender ended, the channel drained and no create or write failure.
C5_AtomicOutput ==
    ~ to_stdout =>
        /\ cpc # "ok" => destination = prior
        /\ cpc = "ok" =>
              /\ destination = Some(Passed)
              /\ Quiescent
              /\ Len(fed) = Cardinality(Produced \cup PriorDecoded)
              /\ failed \cap { "create", "write" } = {}
        /\ temp # None =>
              /\ Len(temp[1]) <= Len(Passed)
              /\ temp[1] = SubSeq(Passed, 1, Len(temp[1]))
              /\ "write" \notin failed => temp[1] = Passed
        /\ failed \cap { "create", "write" } # {} => destination = prior /\ cpc = "err"

\* C5 witness: the new database, complete in the temporary file once every
\* sender had ended, replaced a prior database of two entries.
C5_Witness ==
    /\ ~ to_stdout
    /\ cpc = "ok"
    /\ input # None
    /\ Len(input[1]) = MaxInput
    /\ prior # None
    /\ Len(prior[1]) = 2
    /\ destination # prior
    /\ destination = Some(Passed)
    /\ temp = None

\* C6 as stated: a failure to open the input, to create the temporary file or
\* to rename it never lets run() return success, and after a failure to open
\* the input or to create the temporary file the destination is unchanged.
C6_FatalFailuresReported ==
    /\ failed \cap { "input", "create", "rename" } # {} => cpc # "ok"
    /\ failed \cap { "input", "create" } # {} => destination = prior

AllOrigins ==
    Range(arrived)
        \cup { entry_chan[i].origin : i \in 1..Len(entry_chan) }
        \cup UNION { { wpending[w][i].origin : i \in 1..Len(wpending[w]) } : w \in 1..NumWorkers }

\* C7: no entry is ever sent for an execution whose outcome only logs; no
\* worker, and neither the reader nor copy_entries, stops for a record (a
\* worker ends only with the execution channel closed and empty, or when the
\* consumer is gone; the thread panics only on a file it cannot open or when
\* the consumer is gone); the consumer stops only on a file operation or on
\* an entry handed to the filter; after a success every decodable record,
\* also one behind a record of any failing kind, was processed.
C7_PerRecordErrorsContained ==
    /\ \A o \in AllOrigins :
          o[1] = "exec" => ~ NonEntryOutcome(input[1][o[2]][2])
    /\ \A w \in 1..NumWorkers :
          /\ wpc[w] = "exited" => iter_ended(exec_chan, ExecutionSenderAlive)
          /\ wpc[w] = "panicked" => ~ EntryReceiverAlive
          /\ wpc[w] = "send" => wpending[w] # << >>
          /\ wpc[w] \in { "recv", "exited" } => wpending[w] = << >>
    /\ tpc = "panicked" => (failed \cap { "input", "prior" } # {} \/ ~ EntryReceiverAlive)
    /\ cpc = "err" => failed \cap { "create", "write", "rename" } # {}
    /\ cpc = "panicked" => fed # << >>
    /\ cpc = "ok" =>
          /\ \A i \in DecodedInput : taken[i] # << >>
          /\ Produced \cup PriorDecoded \subseteq Range(arrived)
          /\ (append /\ prior # None /\ input # None) => copy_source = prior[1]

\* C7 witness: one worker received an execution whose conversion fails and
\* then the next execution, whose entry it holds to send; the replay skipped
\* a record that does not decode and sent the record behind it.
C7_Witness ==
    /\ input = Some(<< Ok(X_raw), Ok(X_one) >>)
    /\ taken[1] # << >>
    /\ taken[1] = taken[2]
    /\ << "exec", 2, 1 >> \in AllOrigins
    /\ prior = Some(<< Err("decode"), Ok(E_prior) >>)
    /\ << "prior", 2, 1 >> \in AllOrigins

\* run() has returned, or has unwound.
Finished == cpc \in { "ok", "err", "panicked" }

SeenBefore(i) ==
    \E j \in 1..(i - 1) :
        ActiveKey(duplicate_filter_fields, fed[j]) = ActiveKey(duplicate_filter_fields, fed[i])

\* C20 as stated: the predicate built from Content returns a boolean for
\* every entry handed to it, TRUE exactly when path inclusion and duplicate
\* suppression both hold; with no path to include or to exclude and
\* include_only_existing_source unset, exactly for the first entry of a key.
C20_ContentFilter ==
    /\ Len(verdicts) = Len(fed)
    /\ \A i \in 1..Len(verdicts) : verdicts[i] <=> ~ SeenBefore(i)

\* The entry behind an origin: the k-th entry of the i-th record of the
\* input, or the j-th record of the prior output.
EntryOf(origin) ==
    IF origin[1] = "exec"
    THEN expanded[input[1][origin[2]][2]][origin[3]]
    ELSE copy_source[origin[2]][2]

\* The records of the database written so far: on the standard output, in
\* the temporary file, or at the destination once renamed.
Written ==
    IF to_stdout THEN stdout
    ELSE IF temp # None THEN temp[1]
    ELSE IF cpc = "ok" THEN destination[1]
    ELSE << >>

\* The entries handed to the filter that are the first of their key, in order.
RECURSIVE FirstOfKeyFrom(_)
FirstOfKeyFrom(i) ==
    IF i > Len(fed) THEN << >>
    ELSE IF ~ SeenBefore(i) THEN << Ok(fed[i]) >> \o FirstOfKeyFrom(i + 1)
    ELSE FirstOfKeyFrom(i + 1)

C22_PriorEntriesFirst ==
    (append /\ prior # None) =>
        \A i \in 1..Len(arrived) :
            arrived[i][1] = "exec" =>
                \A j \in OkIndices(prior[1]) :
                    \E k \in 1..(i - 1) : arrived[k] = << "prior", j, 1 >>

\* The thread is about to send the next execution, or the next prior entry.
ReaderHasExecution ==
    tpc = "read" /\ rpos <= Len(input[1]) /\ input[1][rpos][1] = "Ok"
ReplayHasEntry ==
    tpc = "copy" /\ cpos <= Len(copy_source) /\ copy_source[cpos][1] = "Ok"

\* C23: the execution channel never holds more than its capacity and the
\* entry channel never more than its; while the execution channel is full the
\* reader stays at its record and nothing in the channel is dropped or
\* overwritten; while the entry channel is full a worker keeps the entries it
\* has to send and the replay stays at its record; an execution or an entry
\* leaves its sender only into the channel.
C23_BackpressureBounds ==
    /\ [](Len(exec_chan) <= ExecutionCapacity /\ Len(entry_chan) <= EntryCapacity)
    /\ [][ /\ Len(exec_chan) = ExecutionCapacity =>
                /\ exec_chan' \in { exec_chan, Tail(exec_chan) }
                /\ ReaderHasExecution => (rpos' = rpos /\ tpc' = tpc)
           /\ (ReaderHasExecution /\ rpos' # rpos) =>
                exec_chan' = Append(exec_chan, [ execution |-> input[1][rpos][2], id |-> rpos ])
           /\ Len(entry_chan) = EntryCapacity =>
                /\ entry_chan' \in { entry_chan, Tail(entry_chan) }
                /\ \A w \in 1..NumWorkers :
                      wpc[w] = "send" => wpending'[w] = wpending[w]
                /\ ReplayHasEntry => cpos' = cpos
           /\ \A w \in 1..NumWorkers :
                (wpc[w] = "send" /\ wpending'[w] # wpending[w]) =>
                    entry_chan' = Append(entry_chan, Head(wpending[w]))
           /\ (ReplayHasEntry /\ cpos' # cpos) =>
                entry_chan' = Append(entry_chan,
                    [ entry |-> copy_source[cpos][2], origin |-> << "prior", cpos, 1 >> ])
         ]_vars

\* C23 witness: both channels are full; the reader waits with the next
\* execution and a worker waits with an entry.
C23_Witness ==
    /\ Len(exec_chan) = ExecutionCapacity
    /\ ReaderHasExecution
    /\ Len(entry_chan) = EntryCapacity
    /\ \E w \in 1..NumWorkers : wpc[w] = "send"

\* C24 as stated: in append mode, once the temporary file has been renamed
\* onto the output path, copy_entries has returned after reading every record
\* of the prior output.
C24_PriorReadBeforeReplaced ==
    (append /\ prior # None /\ cpc = "ok") =>
        /\ tpc = "done"
        /\ copy_source = prior[1]
        /\ cpos > Len(copy_source)

OriginsOf(items) == [ k \in 1..Len(items) |-> items[k].origin ]

\* The entries on their way in the order in which they reach the consumer:
\* those that left the entry channel, those in it, those worker w has to send.
Flow(w) == arrived \o OriginsOf(entry_chan) \o OriginsOf(wpending[w])

\* The origins in a sequence that are entries of the i-th record of the input.
OfExecution(i, origins) ==
    SelectSeq(origins, LAMBDA o : o[1] = "exec" /\ o[2] = i)

ExpectedKeys ==
    UNION { { ActiveKey(duplicate_filter_fields, expanded[input[1][i][2]][k]) :
                k \in 1..Len(expanded[input[1][i][2]]) } : i \in DecodedInput }
        \cup (IF append /\ prior # None THEN KeysOf(prior[1]) ELSE {})

\* C26 as stated: whatever the interleaving, a run that ends without a failure
\* to create, write or rename has written a database whose keys are the keys
\* of all entries produced, one entry for each key.
C26_SameKeysInEveryInterleaving ==
    (Finished /\ failed \cap { "create", "write", "rename" } = {}) =>
        /\ KeysOf(Written) = ExpectedKeys
        /\ Len(Written) = Cardinality(ExpectedKeys)

\* ------------------------------------------- Configured::recognize, alone
\* The arguments an execution is made of: flags, an output pair, relative
\* source files, and an absolute path to a source file.
ArgumentTexts == { S_dash_c, S_dash_o, S_a_o, S_a_c, S_b_c, P_w_a_c }

ConfiguredExecutions ==
    { Execution(e, a, P_w) :
        e \in { P_cc, P_gcc, P_dot_cc },
        a \in { << >> } \cup { << S_cc >> \o r : r \in SeqsUpTo(ArgumentTexts, MaxArguments) } }

\* The configured entries: the flag policy removes a flag, a source text, or
\* both, and adds flags, one of them a text that looks like a source file.
ConfiguredConfigs ==
    { [ executable |-> P_cc, flags_to_remove |-> r, flags_to_add |-> a ] :
        r \in { << >>, << S_dash_c >>, << S_a_c >>, << S_dash_c, S_a_c >> },
        a \in { << >>, << S_dash_W >>, << S_dash_W, S_b_c >>, << S_dash_c >> } }

ConfiguredInit ==
    /\ compilation = None
    /\ tool \in { ConfiguredTool(c) : c \in ConfiguredConfigs }
    /\ execution = None
    /\ result = None
    /\ calls = << >>
    /\ expanded = << >>
    /\ NoCall
    /\ duplicate_filter_fields = "FileOnly"
    /\ have_seen = {}
    /\ fed = << >>
    /\ verdicts = << >>
    /\ NoRun

ConfiguredRecognize ==
    /\ execution = None
    /\ \E x \in ConfiguredExecutions :
          /\ execution' = Some(x)
          /\ result' = Some(configured_recognize(tool.config, x))
    /\ UNCHANGED << compilation, tool, calls, expanded, pureVars >>
    /\ UNCHANGED << filterVars, pipeVars >>

ConfiguredNext == ConfiguredRecognize

SpecConfigured == ConfiguredInit /\ [][ConfiguredNext]_vars

\* The arguments after argument 0.
Rest(x) == SubSeq(x.arguments, 2, Len(x.arguments))

IsCompile(r) ==
    /\ IsRecognized(r)
    /\ r[2][1] = "Ok"
    /\ r[2][2][1] = "Compiler"
    /\ r[2][2][2][1] = "Compile"

CompileOf(r) == r[2][2][2][2]

Listed(a) == Contains(tool.config.flags_to_remove, a)
Kept(x) == SelectSeq(Rest(x), LAMBDA a : ~ Listed(a))
SourcesAmong(args) == SelectSeq(args, looks_like_a_source_file)
FlagsAmong(args) == SelectSeq(args, LAMBDA a : ~ looks_like_a_source_file(a))

\* C11 as stated: executable equal to the configured path and at least one
\* source file among the arguments after the first give a Compile whose
\* sources are exactly those arguments, in order, none removed by
\* flags_to_remove.
C11_Original ==
    ( /\ Applied
      /\ execution[1].executable = tool.config.executable
      /\ SourcesAmong(Rest(execution[1])) # << >> ) =>
        /\ IsCompile(result[1])
        /\ CompileOf(result[1]).sources = SourcesAmong(Rest(execution[1]))

\* C11 amended: executable equal to the configured path and at least one
\* argument after the first that is not listed in flags_to_remove and is
\* classified as a source file give a Compile whose sources are exactly the
\* arguments not listed in flags_to_remove that are classified as source
\* files, in their original order; an argument listed in flags_to_remove is
\* dropped, a source file included.
C11_ConfiguredSources ==
    ( /\ Applied
      /\ execution[1].executable = tool.config.executable
      /\ SourcesAmong(Kept(execution[1])) # << >> ) =>
        /\ IsCompile(result[1])
        /\ CompileOf(result[1]).sources = SourcesAmong(Kept(execution[1]))
        /\ \A i \in 1..Len(CompileOf(result[1]).sources) :
              ~ Listed(CompileOf(result[1]).sources[i])

\* C11 witness: of two source files among the arguments the one listed in
\* flags_to_remove is dropped and the other is the only source.
C11_Witness ==
    /\ Applied
    /\ Listed(S_a_c)
    /\ Rest(execution[1]) = << S_b_c, S_dash_c, S_a_c >>
    /\ IsCompile(result[1])
    /\ CompileOf(result[1]).sources = << S_b_c >>

C13_ConfiguredFlags ==
    (Applied /\ IsCompile(result[1])) =>
        LET c == CompileOf(result[1])
        IN  /\ c.flags = FlagsAmong(Kept(execution[1])) \o tool.config.flags_to_add
            /\ c.working_dir = execution[1].working_dir
            /\ c.compiler = execution[1].executable
            /\ c.output = None

\* C13 witness: an output pair stays in the flags, and flags_to_add is
\* appended as configured, a listed flag and a source text included.
C13_Witness ==
    /\ Applied
    /\ tool.config.flags_to_remove = << S_dash_c >>
    /\ tool.config.flags_to_add = << S_dash_W, S_b_c >>
    /\ Rest(execution[1]) = << S_dash_o, S_a_o, S_a_c >>
    /\ IsCompile(result[1])
    /\ CompileOf(result[1]).flags = << S_dash_o, S_a_o, S_dash_W, S_b_c >>
    /\ CompileOf(result[1]).output = None

\* -------------------------------------------------------- try_from, alone
\* The sources of a Compile: relative names, one with "." and one with "..",
\* absolute paths, one with "..", and a name that is not UTF-8.
SourceTexts ==
    { S_a_c, S_b_c, S_dot_a_c, S_parent_b_c, P_w_a_c, P_w_parent_a_c, S_raw_c }

\* The calls handed to try_from. A recognizer builds a Compile with at least
\* one source.
CompilerCalls ==
    { Query, Preprocess } \cup
    { Compile(w, c, f, s, o) :
        w \in { P_w, P_v },
        c \in { P_cc, P_raw },
        f \in { << >>, << S_dash_c >>, << S_dash_c, S_dash_W >> },
        s \in SeqsUpTo(SourceTexts, MaxSources) \ { << >> },
        o \in { None, Some(S_a_o), Some(P_w_a_o), Some(P_raw) } }

ExpandInit ==
    /\ call \in { Some(c) : c \in CompilerCalls }
    /\ converted = None
    /\ argument = None
    /\ looks = None
    /\ compilation = None
    /\ tool = AnyTool(<< >>)
    /\ execution = None
    /\ result = None
    /\ calls = << >>
    /\ expanded = << >>
    /\ duplicate_filter_fields = "FileOnly"
    /\ have_seen = {}
    /\ fed = << >>
    /\ verdicts = << >>
    /\ NoRun

Convert ==
    /\ converted = None
    /\ converted' = Some(try_from(call[1]))
    /\ UNCHANGED << call, argument, looks >>
    /\ UNCHANGED << compilation, tool, execution, result, calls, expanded >>
    /\ UNCHANGED << filterVars, pipeVars >>

ExpandNext == Convert

SpecExpand == ExpandInit /\ [][ExpandNext]_vars

Converted == converted # None
OfCompile == call[1][1] = "Compile"
Entries == converted[1][2]

Representable(path) == ~ Contains(path, "<FF>")

AllRepresentable(c) ==
    /\ Representable(c.compiler)
    /\ c.output # None => Representable(c.output[1])
    /\ \A i \in 1..Len(c.sources) : Representable(c.sources[i])

\* A path as the specification resolves it: an absolute path as it is, a
\* relative one joined to the working directory.
Joined(path, working_dir) ==
    IF starts_with(path, "/") THEN path ELSE working_dir \o << "/" >> \o path

\* The text of a path with its "." components removed and each ".."
\* component removed together with the component before it.
Normalized(path) ==
    LET tokens == resolve_dots(components(path), 1, << >>)
    IN  IF tokens = << >> THEN << "/" >> ELSE from_tokens(tokens, 1)

\* The entries of one call are in source order with one directory and output.
FanOut(c) ==
    /\ Len(Entries) = Len(c.sources)
    /\ \A i \in 1..Len(c.sources) :
          /\ Entries[i].file = Normalized(Joined(c.sources[i], c.working_dir))
          /\ Entries[i].arguments[Len(Entries[i].arguments)] = c.sources[i]
          /\ Entries[i].directory = c.working_dir
          /\ Entries[i].output =
                IF c.output = None THEN None
                ELSE Some(Normalized(Joined(c.output[1], c.working_dir)))

\* C14 as stated: converting a Compile with N sources succeeds with exactly N
\* entries, the i-th for the i-th source, with directory working_dir and the
\* one resolved output; converting Query or Preprocess succeeds with no entry.
C14_Original ==
    Converted =>
        IF OfCompile
        THEN converted[1][1] = "Ok" /\ FanOut(call[1][2])
        ELSE converted[1] = Ok(<< >>)

\* C14 amended: converting a Compile with N sources whose compiler, output
\* and sources are representable as text succeeds with exactly N entries, the
\* i-th for the i-th source, with directory working_dir and the one resolved
\* output; every successful conversion of a Compile has this shape; converting
\* Query or Preprocess succeeds with no entry.
C14_FanOutExact ==
    Converted =>
        IF OfCompile
        THEN /\ AllRepresentable(call[1][2]) => converted[1][1] = "Ok"
             /\ converted[1][1] = "Ok" => FanOut(call[1][2])
        ELSE converted[1] = Ok(<< >>)

\* C14 witness: three sources and an output gave three entries.
C14_Witness ==
    /\ Converted
    /\ OfCompile
    /\ call[1][2].sources = << S_b_c, P_w_a_c, S_a_c >>
    /\ call[1][2].output = Some(S_a_o)
    /\ converted[1][1] = "Ok"
    /\ Len(Entries) = 3
    /\ Entries[2].file = P_w_a_c
    /\ Entries[3].output = Some(P_w_a_o)

\* C15 as stated: the entries of one Compile have pairwise distinct files.
C15_Original ==
    (Converted /\ OfCompile /\ converted[1][1] = "Ok") =>
        \A i, j \in 1..Len(Entries) : i # j => Entries[i].file # Entries[j].file

\* C15 amended: two entries of one Compile have the same file exactly when
\* their sources resolve against working_dir to the same path; sources that
\* resolve to pairwise distinct paths give pairwise distinct files.
C15_DistinctFiles ==
    (Converted /\ OfCompile /\ converted[1][1] = "Ok") =>
        /\ Len(Entries) = Len(call[1][2].sources)
        /\ \A i, j \in 1..Len(Entries) :
              Entries[i].file = Entries[j].file <=>
                  Normalized(Joined(call[1][2].sources[i], call[1][2].working_dir))
                      = Normalized(Joined(call[1][2].sources[j], call[1][2].working_dir))

\* C15 witness: of three sources the first and the second are distinct files,
\* the third is the first again, spelled as an absolute path.
C15_Witness ==
    /\ Converted
    /\ OfCompile
    /\ call[1][2].working_dir = P_w
    /\ call[1][2].sources = << S_a_c, S_b_c, P_w_a_c >>
    /\ converted[1][1] = "Ok"
    /\ Entries[1].file # Entries[2].file
    /\ Entries[1].file = Entries[3].file

\* C16: each entry's arguments are the compiler, the flags in order, "-o" and
\* the output as given only when the call has an output, then the source as
\* given, not its resolved path; the entries of a call share the prefix.
C16_ReconstructedArguments ==
    (Converted /\ OfCompile /\ converted[1][1] = "Ok") =>
        LET c == call[1][2]
            prefix == << c.compiler >> \o c.flags \o
                      (IF c.output = None THEN << >> ELSE << S_dash_o, c.output[1] >>)
        IN  \A i \in 1..Len(Entries) :
                Entries[i].arguments = prefix \o << c.sources[i] >>

\* C16 witness: a relative output and a source with ".." keep their text in
\* the arguments while file and output are resolved.
C16_Witness ==
    /\ Converted
    /\ OfCompile
    /\ call[1][2].working_dir = P_w
    /\ call[1][2].sources = << S_a_c, S_parent_b_c >>
    /\ call[1][2].output = Some(S_a_o)
    /\ converted[1][1] = "Ok"
    /\ Entries[2].arguments = << P_cc, S_dash_c, S_dash_o, S_a_o, S_parent_b_c >>
    /\ Entries[2].file = << "/", "b", ".", "c" >>
    /\ Entries[2].output = Some(P_w_a_o)

\* C17 as stated: a relative path resolves to working_dir joined with the
\* path, an absolute path is returned unchanged, for file and for output.
C17_Original ==
    (Converted /\ OfCompile /\ converted[1][1] = "Ok") =>
        LET c == call[1][2]
        IN  /\ \A i \in 1..Len(Entries) :
                  Entries[i].file = Joined(c.sources[i], c.working_dir)
            /\ c.output # None =>
                  \A i \in 1..Len(Entries) :
                      Entries[i].output = Some(Joined(c.output[1], c.working_dir))

\* C17 amended: a relative path resolves to working_dir joined with the path
\* and an absolute path to itself, in both cases with "." components removed
\* and each ".." component removed together with the component before it; a
\* path without such components is joined, or returned, unchanged.
C17_PathResolution ==
    (Converted /\ OfCompile /\ converted[1][1] = "Ok") =>
        LET c == call[1][2]
            Plain(path) == \A k \in 1..Len(components(path)) :
                              components(path)[k] \notin { << "." >>, << ".", "." >> }
        IN  /\ \A i \in 1..Len(Entries) :
                  /\ Entries[i].file = Normalized(Joined(c.sources[i], c.working_dir))
                  /\ Plain(c.sources[i]) =>
                        Entries[i].file = Joined(c.sources[i], c.working_dir)
            /\ c.output # None =>
                  \A i \in 1..Len(Entries) :
                      /\ Entries[i].output = Some(Normalized(Joined(c.output[1], c.working_dir)))
                      /\ Plain(c.output[1]) =>
                            Entries[i].output = Some(Joined(c.output[1], c.working_dir))

\* C17 witness: a relative source with "..", an absolute source, and an
\* absolute source with "..", resolved.
C17_Witness ==
    /\ Converted
    /\ OfCompile
    /\ call[1][2].working_dir = P_v
    /\ call[1][2].sources = << S_parent_b_c, P_w_a_c, P_w_parent_a_c >>
    /\ converted[1][1] = "Ok"
    /\ Entries[1].file = << "/", "b", ".", "c" >>
    /\ Entries[2].file = P_w_a_c
    /\ Entries[3].file = << "/", "a", ".", "c" >>

\* C18: a Compile whose compiler, output or one of whose sources is not
\* representable as text converts to an error and to no entry; a successful
\* conversion never has fewer entries than sources.
C18_ConversionFailure ==
    (Converted /\ OfCompile) =>
        /\ ~ AllRepresentable(call[1][2]) => converted[1] = Err("OsString")
        /\ converted[1][1] = "Ok" => Len(Entries) = Len(call[1][2].sources)

\* C18 witness: the second of three sources is not representable; the result
\* is the error, not the entries of the other two.
C18_Witness ==
    /\ Converted
    /\ OfCompile
    /\ Representable(call[1][2].compiler)
    /\ call[1][2].output = None
    /\ call[1][2].sources = << S_a_c, S_raw_c, S_b_c >>
    /\ converted[1] = Err("OsString")

\* ----------------------------------------- looks_like_a_source_file, alone
\* The characters of the classified texts: the two flag prefixes, the dot,
\* letters of extensions in both cases and a letter of no extension.
TextAlphabet == { "-", "/", ".", "c", "C", "x" }

\* Every text of up to MaxText characters, the empty text included.
Texts == SeqsUpTo(TextAlphabet, MaxText)

ClassifierInit ==
    /\ argument \in { Some(t) : t \in Texts }
    /\ looks = None
    /\ call = None
    /\ converted = None
    /\ compilation = None
    /\ tool = AnyTool(<< >>)
    /\ execution = None
    /\ result = None
    /\ calls = << >>
    /\ expanded = << >>
    /\ duplicate_filter_fields = "FileOnly"
    /\ have_seen = {}
    /\ fed = << >>
    /\ verdicts = << >>
    /\ NoRun

Classify ==
    /\ looks = None
    /\ looks' = Some(looks_like_a_source_file(argument[1]))
    /\ UNCHANGED << call, converted, argument >>
    /\ UNCHANGED << compilation, tool, execution, result, calls, expanded >>
    /\ UNCHANGED << filterVars, pipeVars >>

ClassifierNext == Classify

SpecClassifier == ClassifierInit /\ [][ClassifierNext]_vars

Classified == looks # None

\* The text has a "." at position i and none after it.
LastDotAt(text, i) ==
    /\ text[i] = "."
    /\ \A j \in (i + 1)..Len(text) : text[j] # "."

\* C19: every text, the empty one included, is classified with a boolean;
\* the value is TRUE exactly when the text begins with neither "-" nor "/",
\* holds a ".", and the text after its last "." is, in the same case, one of
\* EXTENSIONS. A text beginning with "/" is never a source file.
C19_SourceFileClassifier ==
    Classified =>
        LET text == argument[1]
        IN  /\ looks[1] \in BOOLEAN
            /\ looks[1] <=>
                  /\ ~ (Len(text) > 0 /\ text[1] \in { "-", "/" })
                  /\ \E i \in 1..Len(text) :
                        /\ LastDotAt(text, i)
                        /\ SubSeq(text, i + 1, Len(text)) \in EXTENSIONS
            /\ (Len(text) > 0 /\ text[1] = "/") => looks[1] = FALSE

\* C19 witness: the absolute path /c.c, whose extension is a source
\* extension, is classified as not a source file.
C19_Witness ==
    /\ Classified
    /\ argument = Some(<< "/", "c", ".", "c" >>)
    /\ looks = Some(FALSE)

====
